---- MODULE Spec2Model ----
(***************************************************************************)
(* A model of gim-config: the per-user configuration file of the gim tool  *)
(* (src/src/config.rs, src/src/directory.rs).                              *)
(*                                                                         *)
(* The state is the host environment (home directory known or not, fixed   *)
(* for a run of the program), the                                          *)
(* file system at <home>/.config/gim/config.toml (directory, file, file    *)
(* content as TOML lines), a record of the last public call, and two       *)
(* history flags: bootstrapped (a load created the file with the defaults  *)
(* and nothing outside the program touched it since) and foreign (since    *)
(* then a caller saved a document without a default section, or a write    *)
(* failed part-way).  The TOML codec is modelled by what it does: a        *)
(* document is serialised to header and key/value lines and parsed back    *)
(* line by line.                                                           *)
(*                                                                         *)
(* Spec takes every call as one step, with other programs acting between   *)
(* calls.  SpecRace takes load and update_config_value in two steps each   *)
(* (the existence check, then the rest; the load, then the rest), with     *)
(* other programs acting between the steps as well; inflight is the call   *)
(* that is between its steps, and what the last such call saw.             *)
(***************************************************************************)
EXTENDS Integers, Sequences, FiniteSets, TLC

VARIABLES home, dirExists, fileExists, content, last, bootstrapped, foreign, inflight

vars == <<home, dirExists, fileExists, content, last, bootstrapped, foreign, inflight>>

(***************************************************************************)
(* Bounds of the model.                                                    *)
(***************************************************************************)
\* integers 0..MaxInt are the integer values a caller passes to update
MaxInt == 0

(***************************************************************************)
(* toml::Value: a tagged value.  A table is a function from key names to   *)
(* values; toml's Map is a BTreeMap, iterated in key order.                *)
(***************************************************************************)
Integer(i) == [tag |-> "Integer", i |-> i]

String(s) == [tag |-> "String", s |-> s]

Table(m) == [tag |-> "Table", t |-> m]

EmptyMap == [x \in {} |-> Integer(0)]

Put(m, k, v) == [x \in (DOMAIN m) \cup {k} |-> IF x = k THEN v ELSE m[x]]

\* every section and key name of the model, in the byte order of BTreeMap
NameOrder ==
    << "ai", "apikey", "extra", "language", "last_try_day", "max_try",
       "model", "tried", "try_interval_days", "update", "url" >>

IsTable(v) == v.tag = "Table"

\* Value::get on a table root: the entry under a name, if any
HasKey(v, k) == IsTable(v) /\ k \in DOMAIN v.t

(***************************************************************************)
(* The text of a TOML file: a sequence of lines.  A line is a table header *)
(* [a.b], a key/value pair k = v with a scalar v, or text that is not TOML.*)
(***************************************************************************)
Hdr(p) == [l |-> "hdr", path |-> p]

KV(k, v) == [l |-> "kv", key |-> k, val |-> v]

Junk == [l |-> "junk"]

(***************************************************************************)
(* toml::to_string.  Within a table the scalar entries are written first,  *)
(* in key order, then the sub-tables; a table's header is written when the *)
(* table is empty or holds a scalar (the header of a table that holds only *)
(* sub-tables is left out).  A root that is not a table cannot be written. *)
(***************************************************************************)
RECURSIVE EmitScalars(_, _)
EmitScalars(m, i) ==
    IF i > Len(NameOrder) THEN << >>
    ELSE LET k == NameOrder[i] IN
         IF k \in DOMAIN m /\ ~IsTable(m[k])
         THEN <<KV(k, m[k])>> \o EmitScalars(m, i + 1)
         ELSE EmitScalars(m, i + 1)

HasScalar(m) == \E k \in DOMAIN m : ~IsTable(m[k])

RECURSIVE EmitTable(_, _)
RECURSIVE EmitTables(_, _, _)
EmitTables(m, p, i) ==
    IF i > Len(NameOrder) THEN << >>
    ELSE LET k == NameOrder[i] IN
         IF k \in DOMAIN m /\ IsTable(m[k])
         THEN EmitTable(m[k].t, Append(p, k)) \o EmitTables(m, p, i + 1)
         ELSE EmitTables(m, p, i + 1)

EmitTable(m, p) ==
    (IF p # << >> /\ (DOMAIN m = {} \/ HasScalar(m)) THEN <<Hdr(p)>> ELSE << >>)
    \o EmitScalars(m, 1) \o EmitTables(m, p, 1)

to_string(v) ==
    IF IsTable(v)
    THEN [ok |-> TRUE, text |-> EmitTable(v.t, << >>)]
    ELSE [ok |-> FALSE, text |-> << >>]

(***************************************************************************)
(* toml::from_str.  Lines are read in order; a header opens the table at   *)
(* its path, creating the tables on the way; a pair is inserted into the   *)
(* open table.  Text that is not TOML, a header given twice, a header or   *)
(* pair through a name that holds a scalar, and a key given twice are      *)
(* errors.  The empty text is the empty table.                             *)
(***************************************************************************)
RECURSIVE PathIsTable(_, _)
PathIsTable(m, p) ==
    \/ p = << >>
    \/ Head(p) \notin DOMAIN m
    \/ /\ IsTable(m[Head(p)])
       /\ PathIsTable(m[Head(p)].t, Tail(p))

RECURSIVE Ensure(_, _)
Ensure(m, p) ==
    IF p = << >> THEN m
    ELSE LET k == Head(p)
             sub == IF k \in DOMAIN m THEN m[k].t ELSE EmptyMap
         IN  Put(m, k, Table(Ensure(sub, Tail(p))))

RECURSIVE TableAt(_, _)
TableAt(m, p) == IF p = << >> THEN m ELSE TableAt(m[Head(p)].t, Tail(p))

RECURSIVE InsertAt(_, _, _, _)
InsertAt(m, p, k, v) ==
    IF p = << >> THEN Put(m, k, v)
    ELSE Put(m, Head(p), Table(InsertAt(m[Head(p)].t, Tail(p), k, v)))

ParseLine(st, line) ==
    IF ~st.ok THEN st
    ELSE IF line.l = "junk" THEN [st EXCEPT !.ok = FALSE]
    ELSE IF line.l = "hdr"
         THEN IF line.path \in st.defined \/ ~PathIsTable(st.root, line.path)
              THEN [st EXCEPT !.ok = FALSE]
              ELSE [ok |-> TRUE, root |-> Ensure(st.root, line.path),
                    cur |-> line.path, defined |-> st.defined \cup {line.path}]
    ELSE IF line.key \in DOMAIN TableAt(st.root, st.cur)
         THEN [st EXCEPT !.ok = FALSE]
         ELSE [st EXCEPT !.root = InsertAt(st.root, st.cur, line.key, line.val)]

RECURSIVE ParseLines(_, _)
ParseLines(st, text) ==
    IF text = << >> THEN st
    ELSE ParseLines(ParseLine(st, Head(text)), Tail(text))

\* (a variant that answers a text it cannot parse with the empty table)
from_str_or_default(text) ==
    LET st == ParseLines([ok |-> TRUE, root |-> EmptyMap, cur |-> << >>,
                          defined |-> {}], text)
    IN  IF st.ok THEN [ok |-> TRUE, doc |-> Table(st.root)]
        ELSE [ok |-> TRUE, doc |-> Table(EmptyMap)]

from_str(text) ==
    LET st == ParseLines([ok |-> TRUE, root |-> EmptyMap, cur |-> << >>,
                          defined |-> {}], text)
    IN  IF st.ok THEN [ok |-> TRUE, doc |-> Table(st.root)]
        ELSE [ok |-> FALSE, doc |-> Table(EmptyMap)]

(***************************************************************************)
(* std::io::Result.  An error carries its std::io::ErrorKind and the       *)
(* message that tells which failure it is; host file system errors carry   *)
(* the host's kind, here "Other".  A panic aborts the call.                *)
(***************************************************************************)
Unit == [tag |-> "Unit"]

Ok(v) == [status |-> "Ok", kind |-> "", msg |-> "", val |-> v]

Err(kind, msg) == [status |-> "Err", kind |-> kind, msg |-> msg, val |-> Unit]

Panic(msg) == [status |-> "Panic", kind |-> "", msg |-> msg, val |-> Unit]

\* the file system call that fails with a host error during one call, if any
\* ("write": fs::write fails to open the file; "write_partial": it fails after
\* truncating it)
Faults ==
    {"none", "create_dir_all", "create", "write_all", "read_to_string", "write",
     "write_partial"}

\* what a call leaves behind: the world, the file system calls and output
\* it made, in order, and its result
Outcome(w, ev, res) == [w |-> w, ev |-> ev, res |-> res]

World == [home |-> home, dir |-> dirExists, exists |-> fileExists, text |-> content]

(***************************************************************************)
(* directory.rs                                                            *)
(***************************************************************************)
config_dir(w) ==
    IF ~w.home THEN Err("NotFound", "Home directory not found")
    ELSE Ok(<<"home", ".config", "gim">>)

(***************************************************************************)
(* config.rs                                                               *)
(***************************************************************************)
get_config_file(w) ==
    LET d == config_dir(w) IN
    IF d.status # "Ok" THEN d ELSE Ok(Append(d.val, "config.toml"))

\* (a variant with another retry limit)
update_table_other_limit ==
    Put(Put(Put(Put(EmptyMap, "tried", Integer(0)), "max_try", Integer(3)),
            "last_try_day", String("2000-01-01")), "try_interval_days", Integer(30))

update_table ==
    Put(Put(Put(Put(EmptyMap, "tried", Integer(0)), "max_try", Integer(5)),
            "last_try_day", String("2000-01-01")), "try_interval_days", Integer(30))

ai_table ==
    Put(Put(Put(Put(EmptyMap, "model", String("")), "apikey", String("")),
            "url", String("")), "language", String("English"))

default_content ==
    Table(Put(Put(EmptyMap, "update", Table(update_table)), "ai", Table(ai_table)))

\* the branch taken when the file does not exist: directories, then the file
Bootstrap(w, fault) ==
    IF fault = "create_dir_all"
    THEN Outcome(w, << >>, Err("Other", "create_dir_all failed"))
    ELSE LET w1 == [w EXCEPT !.dir = TRUE]
             s == to_string(default_content)
         IN  IF ~s.ok
             THEN Outcome(w1, <<"create_dir_all">>, Err("InvalidData", "serialize failed"))
             ELSE IF fault = "create"
             THEN Outcome(w1, <<"create_dir_all">>, Err("Other", "create failed"))
             ELSE IF fault = "write_all"
             THEN Outcome([w1 EXCEPT !.exists = TRUE, !.text = << >>],
                          <<"create_dir_all", "create">>, Err("Other", "write_all failed"))
             ELSE Outcome([w1 EXCEPT !.exists = TRUE, !.text = s.text],
                          <<"create_dir_all", "create", "write_all">>, Ok(Unit))

\* (a variant that writes the defaults on every load)
FileMissing_always(w) == TRUE

\* (a variant that takes an empty file for a missing one)
FileMissing_or_empty(w) == ~w.exists \/ w.text = << >>

\* !config_file.exists()
FileMissing(w) == ~w.exists

\* what get_config_into_toml does once config_file.exists() has answered
\* (missing is the negated answer; w is the world by then)
\* (a variant that prints the path once the file has been read)
load_after_check_print_late(w, missing, log_dir, fault) ==
    LET b == IF missing THEN Bootstrap(w, fault) ELSE Outcome(w, << >>, Ok(Unit)) IN
    IF b.res.status # "Ok" THEN b
    ELSE IF fault = "read_to_string"
         THEN Outcome(b.w, b.ev, Err("Other", "read_to_string failed"))
         ELSE IF ~b.w.exists
         THEN Outcome(b.w, b.ev, Err("NotFound", "read_to_string failed"))
         ELSE LET p == from_str(b.w.text)
                  ev1 == Append(b.ev, "read_to_string")
                  ev2 == IF log_dir THEN Append(ev1, "println") ELSE ev1
              IN  IF p.ok THEN Outcome(b.w, ev2, Ok(p.doc))
                  ELSE Outcome(b.w, ev2, Err("InvalidData", "parse failed"))

\* (a variant that creates the defaults only when asked to log the path)
load_after_check_log_gated(w, missing, log_dir, fault) ==
    LET b == IF missing /\ log_dir THEN Bootstrap(w, fault) ELSE Outcome(w, << >>, Ok(Unit)) IN
    IF b.res.status # "Ok" THEN b
    ELSE LET ev1 == IF log_dir THEN Append(b.ev, "println") ELSE b.ev IN
         IF fault = "read_to_string"
         THEN Outcome(b.w, ev1, Err("Other", "read_to_string failed"))
         ELSE IF ~b.w.exists
         THEN Outcome(b.w, ev1, Err("NotFound", "read_to_string failed"))
         ELSE LET p == from_str(b.w.text)
                  ev2 == Append(ev1, "read_to_string")
              IN  IF p.ok THEN Outcome(b.w, ev2, Ok(p.doc))
                  ELSE Outcome(b.w, ev2, Err("InvalidData", "parse failed"))

load_after_check(w, missing, log_dir, fault) ==
    LET b == IF missing THEN Bootstrap(w, fault) ELSE Outcome(w, << >>, Ok(Unit)) IN
    IF b.res.status # "Ok" THEN b
    ELSE LET ev1 == IF log_dir THEN Append(b.ev, "println") ELSE b.ev IN
         IF fault = "read_to_string"
         THEN Outcome(b.w, ev1, Err("Other", "read_to_string failed"))
         ELSE IF ~b.w.exists
         THEN Outcome(b.w, ev1, Err("NotFound", "read_to_string failed"))
         ELSE LET p == from_str(b.w.text)
                  ev2 == Append(ev1, "read_to_string")
              IN  IF p.ok THEN Outcome(b.w, ev2, Ok(p.doc))
                  ELSE Outcome(b.w, ev2, Err("InvalidData", "parse failed"))

get_config_into_toml(w, log_dir, fault) ==
    LET cf == get_config_file(w) IN
    IF cf.status # "Ok" THEN Outcome(w, << >>, Panic("Failed to get config file"))
    ELSE load_after_check(w, FileMissing(w), log_dir, fault)

get_config(w, fault) == get_config_into_toml(w, TRUE, fault)

\* (a variant that reports a section that is not a table as missing)
SectionTable_one_error(config, section) ==
    IF ~HasKey(config, section) \/ ~IsTable(config.t[section])
    THEN Err("NotFound", "Section not found")
    ELSE Ok(config.t[section])

\* the section's table, or the error of the lookup
SectionTable(config, section) ==
    IF ~HasKey(config, section) THEN Err("NotFound", "Section not found")
    ELSE IF ~IsTable(config.t[section]) THEN Err("InvalidData", "Section is not a table")
    ELSE Ok(config.t[section])

get_config_value(w, section, key, fault) ==
    LET c == get_config(w, fault) IN
    IF c.res.status # "Ok" THEN c
    ELSE LET st == SectionTable(c.res.val, section) IN
         IF st.status # "Ok" THEN Outcome(c.w, c.ev, st)
         ELSE IF key \notin DOMAIN st.val.t
         THEN Outcome(c.w, c.ev, Err("NotFound", "Key not found in section"))
         ELSE Outcome(c.w, c.ev, Ok(st.val.t[key]))

save_config(w, config, fault) ==
    LET s == to_string(config)
        cf == get_config_file(w)
    IN  IF ~s.ok THEN Outcome(w, << >>, Err("InvalidData", "serialize failed"))
        ELSE IF cf.status # "Ok" THEN Outcome(w, << >>, cf)
        ELSE IF ~w.dir THEN Outcome(w, << >>, Err("NotFound", "write failed"))
        ELSE IF fault = "write" THEN Outcome(w, << >>, Err("Other", "write failed"))
        ELSE IF fault = "write_partial"
        THEN Outcome([w EXCEPT !.exists = TRUE, !.text = << >>], <<"create">>,
                     Err("Other", "write failed"))
        ELSE Outcome([w EXCEPT !.exists = TRUE, !.text = s.text],
                     <<"create", "write_all">>, Ok(Unit))

\* (a variant that never finds two values equal)
ValueEq_never(a, b) == FALSE

\* (a variant that compares scalars only)
ValueEq_scalars_only(a, b) == a = b /\ ~IsTable(a)

\* existing_value == &value, the derived PartialEq of Value
ValueEq(a, b) == a = b

\* (a variant that saves the loaded document without the new value)
update_config_value_no_insert(w, section, key, value, fault) ==
    LET c == get_config_into_toml(w, FALSE, fault) IN
    IF c.res.status # "Ok" THEN c
    ELSE LET st == SectionTable(c.res.val, section) IN
         IF st.status # "Ok" THEN Outcome(c.w, c.ev, st)
         ELSE IF key \in DOMAIN st.val.t /\ ValueEq(st.val.t[key], value)
         THEN Outcome(c.w, c.ev, Ok(Unit))
         ELSE LET s == save_config(c.w, c.res.val, fault)
              IN  Outcome(s.w, c.ev \o s.ev, s.res)

\* (a variant that saves the changed section alone)
update_config_value_section_only(w, section, key, value, fault) ==
    LET c == get_config_into_toml(w, FALSE, fault) IN
    IF c.res.status # "Ok" THEN c
    ELSE LET st == SectionTable(c.res.val, section) IN
         IF st.status # "Ok" THEN Outcome(c.w, c.ev, st)
         ELSE IF key \in DOMAIN st.val.t /\ ValueEq(st.val.t[key], value)
         THEN Outcome(c.w, c.ev, Ok(Unit))
         ELSE LET config == Table(Put(EmptyMap, section,
                                      Table(Put(st.val.t, key, value))))
                  s == save_config(c.w, config, fault)
              IN  Outcome(s.w, c.ev \o s.ev, s.res)

\* (a variant that refuses a key the section does not hold yet)
update_config_value_key_required(w, section, key, value, fault) ==
    LET c == get_config_into_toml(w, FALSE, fault) IN
    IF c.res.status # "Ok" THEN c
    ELSE LET st == SectionTable(c.res.val, section) IN
         IF st.status # "Ok" THEN Outcome(c.w, c.ev, st)
         ELSE IF key \notin DOMAIN st.val.t
         THEN Outcome(c.w, c.ev, Err("NotFound", "Key not found in section"))
         ELSE IF ValueEq(st.val.t[key], value)
         THEN Outcome(c.w, c.ev, Ok(Unit))
         ELSE LET config == Table(Put(c.res.val.t, section,
                                      Table(Put(st.val.t, key, value))))
                  s == save_config(c.w, config, fault)
              IN  Outcome(s.w, c.ev \o s.ev, s.res)

\* (a variant that reads the file again before it changes the document)
update_after_load_reread(w, loaded, ev, section, key, value, fault) ==
    LET now == IF w.exists /\ from_str(w.text).ok THEN from_str(w.text).doc ELSE loaded
        st == SectionTable(now, section)
    IN  IF st.status # "Ok" THEN Outcome(w, ev, st)
        ELSE IF key \in DOMAIN st.val.t /\ ValueEq(st.val.t[key], value)
        THEN Outcome(w, ev, Ok(Unit))
        ELSE LET config == Table(Put(now.t, section,
                                     Table(Put(st.val.t, key, value))))
                 s == save_config(w, config, fault)
             IN  Outcome(s.w, ev \o s.ev, s.res)

\* what update_config_value does once its load has returned the document
\* loaded (w is the world by then, ev what the load did)
\* (a variant that adds the section when the document does not hold it)
update_after_load_creates_section(w, loaded, ev, section, key, value, fault) ==
    LET st == IF HasKey(loaded, section) THEN SectionTable(loaded, section)
              ELSE Ok(Table(EmptyMap))
    IN  IF st.status # "Ok" THEN Outcome(w, ev, st)
        ELSE IF key \in DOMAIN st.val.t /\ ValueEq(st.val.t[key], value)
        THEN Outcome(w, ev, Ok(Unit))
        ELSE LET config == Table(Put(loaded.t, section,
                                     Table(Put(st.val.t, key, value))))
                 s == save_config(w, config, fault)
             IN  Outcome(s.w, ev \o s.ev, s.res)

update_after_load(w, loaded, ev, section, key, value, fault) ==
    LET st == SectionTable(loaded, section) IN
    IF st.status # "Ok" THEN Outcome(w, ev, st)
    ELSE IF key \in DOMAIN st.val.t /\ ValueEq(st.val.t[key], value)
    THEN Outcome(w, ev, Ok(Unit))
    ELSE LET config == Table(Put(loaded.t, section,
                                 Table(Put(st.val.t, key, value))))
             s == save_config(w, config, fault)
         IN  Outcome(s.w, ev \o s.ev, s.res)

update_config_value(w, section, key, value, fault) ==
    LET c == get_config_into_toml(w, FALSE, fault) IN
    IF c.res.status # "Ok" THEN c
    ELSE update_after_load(c.w, c.res.val, c.ev, section, key, value, fault)

(***************************************************************************)
(* The inputs of the calls.                                                *)
(***************************************************************************)
Sections == {"ai", "extra"}

Keys == {"model", "extra"}

Values ==
    {String("gpt-4")} \cup {Integer(i) : i \in 0..MaxInt}
    \cup {Table(Put(EmptyMap, "extra", Integer(0)))}

\* documents a caller hands to save_config
SaveDocs ==
    { default_content, Table(EmptyMap), Integer(0),
      Table(Put(EmptyMap, "ai", Table(Put(EmptyMap, "model", String("gpt-4"))))) }

\* what another program or the user leaves in the file
ExternalTexts ==
    { << >>, <<Junk>>, <<KV("ai", Integer(0))>>,
      <<Hdr(<<"extra">>), KV("model", String("gpt-4"))>>,
      <<Hdr(<<"ai">>), KV("model", String("")), KV("model", String(""))>> }

(***************************************************************************)
(* The record of a call: what was called, with which inputs, the world it  *)
(* started in, and its outcome.                                            *)
(***************************************************************************)
CallFrom(pre, op, section, key, value, log, o) ==
    [op |-> op, section |-> section, key |-> key, value |-> value, log |-> log,
     pre |-> pre, status |-> o.res.status, kind |-> o.res.kind,
     msg |-> o.res.msg, val |-> o.res.val, ev |-> o.ev]

Call(op, section, key, value, log, o) == CallFrom(World, op, section, key, value, log, o)

NoWorld == [home |-> FALSE, dir |-> FALSE, exists |-> FALSE, text |-> << >>]

NoCall(op) ==
    [op |-> op, section |-> "", key |-> "", value |-> Unit, log |-> FALSE,
     pre |-> NoWorld, status |-> "Ok", kind |-> "", msg |-> "", val |-> Unit,
     ev |-> << >>]

HasEvent(ev, e) == \E i \in 1..Len(ev) : ev[i] = e

HasDefaultSections(v) == HasKey(v, "update") /\ HasKey(v, "ai")

\* the call created the missing file and wrote the defaults into it
DidBootstrap(c) ==
    /\ c.op \in {"get_config_into_toml", "get_config", "get_config_value",
                 "update_config_value"}
    /\ c.pre.home /\ ~c.pre.exists
    /\ Len(c.ev) >= 3 /\ SubSeq(c.ev, 1, 3) = <<"create_dir_all", "create", "write_all">>

\* the call left in the file something other than a whole document that has
\* the default sections
IsForeign(c) ==
    \/ c.op = "save_config" /\ HasEvent(c.ev, "create") /\ ~HasDefaultSections(c.value)
    \/ c.status = "Err" /\ c.msg = "write failed" /\ HasEvent(c.ev, "create")

Effects(o, c) ==
    /\ home' = o.w.home
    /\ dirExists' = o.w.dir
    /\ fileExists' = o.w.exists
    /\ content' = o.w.text
    /\ last' = c

Commit(o, c) ==
    /\ Effects(o, c)
    /\ bootstrapped' = (bootstrapped \/ DidBootstrap(c))
    /\ foreign' = (bootstrapped' /\ (foreign \/ IsForeign(c)))
    /\ UNCHANGED inflight

\* no call is between its steps, and none has been
Idle ==
    [stage |-> "idle", op |-> "", section |-> "", key |-> "", value |-> Unit,
     log |-> FALSE, missing |-> FALSE, loaded |-> Unit, ev |-> << >>,
     pre |-> NoWorld, mid |-> NoWorld, raced |-> FALSE]

Init ==
    /\ home \in BOOLEAN
    /\ dirExists = FALSE
    /\ fileExists = FALSE
    /\ content = << >>
    /\ last = NoCall("none")
    /\ bootstrapped = FALSE
    /\ foreign = FALSE
    /\ inflight = Idle

Load ==
    \E log \in BOOLEAN, fault \in Faults :
        LET o == get_config_into_toml(World, log, fault) IN
        Commit(o, Call("get_config_into_toml", "", "", Unit, log, o))

GetConfig ==
    \E fault \in Faults :
        LET o == get_config(World, fault) IN
        Commit(o, Call("get_config", "", "", Unit, TRUE, o))

GetValue ==
    \E section \in Sections, key \in Keys, fault \in Faults :
        LET o == get_config_value(World, section, key, fault) IN
        Commit(o, Call("get_config_value", section, key, Unit, TRUE, o))

UpdateValue ==
    \E section \in Sections, key \in Keys, value \in Values, fault \in Faults :
        LET o == update_config_value(World, section, key, value, fault) IN
        Commit(o, Call("update_config_value", section, key, value, FALSE, o))

Save ==
    \E config \in SaveDocs, fault \in Faults :
        LET o == save_config(World, config, fault) IN
        Commit(o, Call("save_config", "", "", config, FALSE, o))

\* a call between its steps stays there, raced; what was kept of a finished
\* one is dropped
Interrupted ==
    IF inflight.stage = "idle" THEN Idle ELSE [inflight EXCEPT !.raced = TRUE]

\* another program or the user replaces the file
ExternalWrite ==
    \E text \in ExternalTexts :
        /\ dirExists' = TRUE
        /\ fileExists' = TRUE
        /\ content' = text
        /\ last' = NoCall("external")
        /\ bootstrapped' = FALSE
        /\ foreign' = FALSE
        /\ inflight' = Interrupted
        /\ UNCHANGED home

\* another program or the user deletes the file
ExternalDelete ==
    /\ fileExists
    /\ fileExists' = FALSE
    /\ content' = << >>
    /\ last' = NoCall("external")
    /\ bootstrapped' = FALSE
    /\ foreign' = FALSE
    /\ inflight' = Interrupted
    /\ UNCHANGED <<home, dirExists>>

Next ==
    \/ Load
    \/ GetConfig
    \/ GetValue
    \/ UpdateValue
    \/ Save
    \/ ExternalWrite
    \/ ExternalDelete

Spec == Init /\ [][Next]_vars

(***************************************************************************)
(* The calls in steps.  Between config_file.exists() and the rest of       *)
(* get_config_into_toml, and between the load of update_config_value and   *)
(* the rest of it, other programs may replace or delete the file.          *)
(***************************************************************************)
Between(stage, op, section, key, value, log, missing, loaded, ev) ==
    [stage |-> stage, op |-> op, section |-> section, key |-> key, value |-> value,
     log |-> log, missing |-> missing, loaded |-> loaded, ev |-> ev,
     pre |-> World, mid |-> World, raced |-> FALSE]

\* what is kept of a call that went through its steps: the document it had
\* loaded, the world its last step started in, and whether another program
\* acted between its steps
Finished(loaded) ==
    [Idle EXCEPT !.loaded = loaded, !.mid = World, !.raced = inflight.raced]

\* a call has started
Started == NoCall("started")

\* get_config_file and config_file.exists()
LoadCheck ==
    /\ inflight.stage = "idle"
    /\ \E log \in BOOLEAN :
        IF get_config_file(World).status # "Ok"
        THEN LET o == get_config_into_toml(World, log, "none") IN
             /\ Effects(o, Call("get_config_into_toml", "", "", Unit, log, o))
             /\ inflight' = Finished(Unit)
        ELSE /\ inflight' = Between("checked", "get_config_into_toml", "", "", Unit, log,
                                    FileMissing(World), Unit, << >>)
             /\ last' = Started
             /\ UNCHANGED <<home, dirExists, fileExists, content>>
    /\ UNCHANGED <<bootstrapped, foreign>>

\* the rest of get_config_into_toml
LoadFinish ==
    /\ inflight.stage = "checked"
    /\ \E fault \in Faults :
        LET o == load_after_check(World, inflight.missing, inflight.log, fault) IN
        Effects(o, CallFrom(inflight.pre, inflight.op, "", "", Unit, inflight.log, o))
    /\ inflight' = Finished(Unit)
    /\ UNCHANGED <<bootstrapped, foreign>>

\* let mut config = get_config_into_toml(false)?
UpdateLoad ==
    /\ inflight.stage = "idle"
    /\ \E section \in Sections, key \in Keys, value \in Values, fault \in Faults :
        LET o == get_config_into_toml(World, FALSE, fault) IN
        IF o.res.status # "Ok"
        THEN /\ Effects(o, Call("update_config_value", section, key, value, FALSE, o))
             /\ inflight' = Finished(Unit)
        ELSE /\ home' = o.w.home
             /\ dirExists' = o.w.dir
             /\ fileExists' = o.w.exists
             /\ content' = o.w.text
             /\ last' = Started
             /\ inflight' = Between("loaded", "update_config_value", section, key, value,
                                    FALSE, FALSE, o.res.val, o.ev)
    /\ UNCHANGED <<bootstrapped, foreign>>

\* the rest of update_config_value
UpdateFinish ==
    /\ inflight.stage = "loaded"
    /\ \E fault \in Faults :
        LET o == update_after_load(World, inflight.loaded, inflight.ev, inflight.section,
                                   inflight.key, inflight.value, fault) IN
        Effects(o, CallFrom(inflight.pre, inflight.op, inflight.section, inflight.key,
                            inflight.value, FALSE, o))
    /\ inflight' = Finished(inflight.loaded)
    /\ UNCHANGED <<bootstrapped, foreign>>

NextRace ==
    \/ LoadCheck
    \/ LoadFinish
    \/ UpdateLoad
    \/ UpdateFinish
    \/ ExternalWrite
    \/ ExternalDelete

SpecRace == Init /\ [][NextRace]_vars

(***************************************************************************)
(* Vocabulary of the properties.                                           *)
(***************************************************************************)
LoadOps == {"get_config_into_toml", "get_config"}

ReadOps == LoadOps \cup {"get_config_value"}

PublicOps == ReadOps \cup {"update_config_value", "save_config"}

\* the call touched the file: created or truncated it, or wrote bytes to it
WroteFile(c) == HasEvent(c.ev, "create") \/ HasEvent(c.ev, "write_all")

\* directory, file and content are as they were when the last call started
FileAsBefore ==
    /\ dirExists = last.pre.dir
    /\ fileExists = last.pre.exists
    /\ content = last.pre.text

\* the host failed to read the file
ReadFailed(c) == c.status = "Err" /\ c.kind = "Other" /\ c.msg = "read_to_string failed"

ParseFailed(c) == c.status = "Err" /\ c.kind = "InvalidData" /\ c.msg = "parse failed"

\* the document on disk when the last call started (the defaults, which the
\* call writes first, when there was no file)
DocBefore ==
    IF last.pre.exists THEN from_str(last.pre.text).doc ELSE default_content

\* a load of the file as it is now, with nothing failing
FreshLoad == get_config_into_toml(World, FALSE, "none")

(***************************************************************************)
(* C1: after update_value(s, k, v) returns success, a fresh load returns a *)
(* document in which s.k equals v, and every other section and every      *)
(* other key of s holds exactly the value it held before the update.       *)
(***************************************************************************)
C1_UpdateRoundTrips ==
    (last.op = "update_config_value" /\ last.status = "Ok") =>
        LET s == last.section
            k == last.key
            before == DocBefore.t
            after == FreshLoad.res.val
        IN  /\ FreshLoad.res.status = "Ok"
            /\ FreshLoad.w = World
            /\ IsTable(after) /\ DOMAIN after.t = DOMAIN before
            /\ \A s2 \in DOMAIN before \ {s} : after.t[s2] = before[s2]
            /\ IsTable(after.t[s])
            /\ DOMAIN after.t[s].t = DOMAIN before[s].t \cup {k}
            /\ after.t[s].t[k] = last.value
            /\ \A k2 \in DOMAIN before[s].t \ {k} : after.t[s].t[k2] = before[s].t[k2]

\* an update that overwrote an existing key with a table, in a document that
\* has another section and other keys
C1_Witness ==
    /\ last.op = "update_config_value" /\ last.status = "Ok"
    /\ WroteFile(last) /\ last.pre.exists
    /\ last.section = "ai" /\ last.key = "model" /\ IsTable(last.value)
    /\ HasKey(DocBefore, "update")
    /\ {"model", "language"} \subseteq DOMAIN DocBefore.t["ai"].t
    /\ DocBefore.t["ai"].t["model"] # last.value

(***************************************************************************)
(* C2: when the file's document already holds s.k with a value equal to v, *)
(* update_value(s, k, v) performs no write and leaves the file content as  *)
(* it was, and it returns success (unless the host fails to read the file).*)
(***************************************************************************)
C2_Precondition ==
    /\ last.op = "update_config_value"
    /\ last.pre.home /\ last.pre.exists
    /\ from_str(last.pre.text).ok
    /\ HasKey(DocBefore, last.section)
    /\ HasKey(DocBefore.t[last.section], last.key)
    /\ DocBefore.t[last.section].t[last.key] = last.value

C2_EqualValueNoWrite ==
    C2_Precondition =>
        /\ ~WroteFile(last)
        /\ FileAsBefore
        /\ last.status = "Ok" \/ ReadFailed(last)

C2_Witness == C2_Precondition /\ last.status = "Ok" /\ last.value = String("gpt-4")

(***************************************************************************)
(* C3: when the file is absent, load creates the directory and the file,   *)
(* and the file's document and the returned document are the default       *)
(* document (unless the host fails a file system call, and then load       *)
(* returns that error).                                                    *)
(***************************************************************************)
ExpectedDefault ==
    Table([x \in {"update", "ai"} |->
        IF x = "update"
        THEN Table([y \in {"tried", "max_try", "last_try_day", "try_interval_days"} |->
                 CASE y = "tried" -> Integer(0)
                   [] y = "max_try" -> Integer(5)
                   [] y = "last_try_day" -> String("2000-01-01")
                   [] y = "try_interval_days" -> Integer(30)])
        ELSE Table([y \in {"model", "apikey", "url", "language"} |->
                 IF y = "language" THEN String("English") ELSE String("")])])

C3_AbsentFileGetsDefaults ==
    (last.op \in LoadOps /\ last.pre.home /\ ~last.pre.exists) =>
        \/ /\ last.status = "Ok"
           /\ last.val = ExpectedDefault
           /\ dirExists /\ fileExists
           /\ from_str(content) = [ok |-> TRUE, doc |-> ExpectedDefault]
        \/ last.status = "Err" /\ last.kind = "Other"

\* the file was there before (its directory exists), was deleted, and the
\* load put the defaults back
C3_Witness ==
    /\ last.op \in LoadOps /\ last.pre.home /\ ~last.pre.exists /\ last.pre.dir
    /\ last.status = "Ok" /\ last.val = ExpectedDefault

(***************************************************************************)
(* C4: when the file exists, load, get_config and get_value leave it as it *)
(* is; a second load right after a load returns an equal document and      *)
(* writes nothing; only update_value and save change an existing file.     *)
(***************************************************************************)
C4_ReadsNeverWrite ==
    /\ (last.op \in ReadOps /\ last.pre.home /\ last.pre.exists) =>
           ~WroteFile(last) /\ FileAsBefore
    /\ (last.op \in LoadOps /\ last.status = "Ok") =>
           \A log \in BOOLEAN :
               LET again == get_config_into_toml(World, log, "none") IN
               /\ again.res = Ok(last.val)
               /\ again.w = World
               /\ ~HasEvent(again.ev, "create") /\ ~HasEvent(again.ev, "write_all")
    /\ (last.op \in PublicOps /\ last.pre.exists /\ (WroteFile(last) \/ ~FileAsBefore)) =>
           last.op \in {"update_config_value", "save_config"}

\* a get_value that succeeded on a file an earlier update had changed
C4_Witness ==
    /\ last.op = "get_config_value" /\ last.status = "Ok"
    /\ last.pre.exists /\ last.val = String("gpt-4")
    /\ HasKey(DocBefore, "update")

(***************************************************************************)
(* C5: when the file exists and its content is not valid TOML, load,       *)
(* get_config, get_value and update_value fail with the parse error (or    *)
(* with the host's read error), and the file is left exactly as it was.    *)
(***************************************************************************)
InvalidTexts ==
    { <<Junk>>,
      <<Hdr(<<"ai">>), KV("model", String("")), KV("model", String(""))>> }

C5_MalformedNotRepaired ==
    (/\ last.op \in ReadOps \cup {"update_config_value"}
     /\ last.pre.home /\ last.pre.exists
     /\ last.pre.text \in InvalidTexts) =>
        /\ ParseFailed(last) \/ ReadFailed(last)
        /\ ~WroteFile(last)
        /\ FileAsBefore

C5_Witness ==
    /\ last.op = "update_config_value" /\ last.pre.home /\ last.pre.exists
    /\ last.pre.text = <<Junk>> /\ ParseFailed(last)

(***************************************************************************)
(* C6: get_value(s, k) on a loadable document fails with SectionNotFound   *)
(* if s is absent, else with SectionNotATable if s is not a table, else    *)
(* with KeyNotFound if s lacks k, and otherwise returns the value at s.k.  *)
(***************************************************************************)
C6_Loaded ==
    /\ last.op = "get_config_value" /\ last.pre.home
    /\ last.pre.exists => from_str(last.pre.text).ok
    /\ last.status # "Ok" => last.kind # "Other"

C6_GetValueByDocument ==
    C6_Loaded =>
        LET d == DocBefore.t
            s == last.section
            k == last.key
        IN  IF s \notin DOMAIN d
            THEN last.status = "Err" /\ last.kind = "NotFound"
                 /\ last.msg = "Section not found"
            ELSE IF d[s].tag # "Table"
            THEN last.status = "Err" /\ last.kind = "InvalidData"
                 /\ last.msg = "Section is not a table"
            ELSE IF k \notin DOMAIN d[s].t
            THEN last.status = "Err" /\ last.kind = "NotFound"
                 /\ last.msg = "Key not found in section"
            ELSE last.status = "Ok" /\ last.val = d[s].t[k]

\* the section is there and is not a table
C6_Witness ==
    /\ C6_Loaded /\ last.pre.exists
    /\ HasKey(DocBefore, last.section) /\ ~IsTable(DocBefore.t[last.section])
    /\ last.status = "Err"

(***************************************************************************)
(* C7: when the host has no home directory, every public operation returns *)
(* the HomeNotFound error as an error value and creates nothing.           *)
(***************************************************************************)
C7_HomeNotFoundReturned ==
    (last.op \in PublicOps /\ ~last.pre.home) =>
        /\ last.status = "Err" /\ last.kind = "NotFound"
        /\ last.msg = "Home directory not found"
        /\ FileAsBefore

C9_Precondition ==
    last.op \in LoadOps /\ last.pre.home /\ last.pre.exists /\ last.pre.text = << >>

C9_EmptyFileFails ==
    C9_Precondition => (last.status = "Err" /\ FileAsBefore)

(***************************************************************************)
(* C9 as amended: when the file exists and is empty, load returns the      *)
(* empty document (unless the host fails to read the file); the file stays *)
(* empty and is not written with the defaults.                             *)
(***************************************************************************)
C9_EmptyFileIsEmptyDocument ==
    C9_Precondition =>
        /\ (last.status = "Ok" /\ last.val = Table(EmptyMap)) \/ ReadFailed(last)
        /\ ~WroteFile(last)
        /\ FileAsBefore

C9_Witness == C9_Precondition /\ last.status = "Ok" /\ content = << >> /\ fileExists

(***************************************************************************)
(* C10 as stated: every error update_value returns is SectionNotFound or   *)
(* SectionNotATable, or an error raised by save.                           *)
(***************************************************************************)
LookupErrors ==
    { <<"NotFound", "Section not found">>, <<"InvalidData", "Section is not a table">> }

SaveErrors ==
    { <<"InvalidData", "serialize failed">>, <<"NotFound", "Home directory not found">>,
      <<"NotFound", "write failed">>, <<"Other", "write failed">> }

LoadErrors ==
    { <<"Other", "create_dir_all failed">>, <<"Other", "create failed">>,
      <<"Other", "write_all failed">>, <<"Other", "read_to_string failed">>,
      <<"InvalidData", "parse failed">> }

C10_OnlyLookupAndSaveErrors ==
    (last.op = "update_config_value" /\ last.status = "Err") =>
        <<last.kind, last.msg>> \in LookupErrors \cup SaveErrors

(***************************************************************************)
(* C10 as amended: every error update_value returns is SectionNotFound or  *)
(* SectionNotATable, an error raised by save, or an error raised by the    *)
(* load it starts with (directory or file creation, the write of the       *)
(* defaults, the read, the parse).                                         *)
(***************************************************************************)
C10_LookupLoadAndSaveErrors ==
    (last.op = "update_config_value" /\ last.status = "Err") =>
        <<last.kind, last.msg>> \in LookupErrors \cup SaveErrors \cup LoadErrors

\* the load's read error comes back from update_value
C10_Witness == last.op = "update_config_value" /\ ReadFailed(last)

(***************************************************************************)
(* C11: a lookup error (SectionNotFound, SectionNotATable, KeyNotFound)    *)
(* returned by get_value or update_value has an error kind that no other   *)
(* error of these operations has: whatever else the same operations can    *)
(* return from the same file, a different error has a different kind.      *)
(***************************************************************************)
LookupMessages ==
    {"Section not found", "Section is not a table", "Key not found in section"}

C11_LookupKindsDistinct ==
    (/\ last.op \in {"get_config_value", "update_config_value"}
     /\ last.status = "Err" /\ last.msg \in LookupMessages) =>
        \A section \in Sections, key \in Keys, fault \in Faults :
            LET g == get_config_value(last.pre, section, key, fault).res
                u == update_config_value(last.pre, section, key, String("gpt-4"), fault).res
            IN  /\ (g.status = "Err" /\ g.msg # last.msg) => g.kind # last.kind
                /\ (u.status = "Err" /\ u.msg # last.msg) => u.kind # last.kind

(***************************************************************************)
(* C12 (SpecRace): when another program replaces or deletes the file       *)
(* between update_value's load and its save and update_value returns       *)
(* success, the file holds the document update_value had loaded with only  *)
(* s.k set to v, so the other program's change is lost; on the equal-value *)
(* path nothing is written and the other program's file stays as it is.    *)
(***************************************************************************)
C12_Raced ==
    /\ last.op = "update_config_value" /\ last.status = "Ok"
    /\ inflight.stage = "idle" /\ inflight.raced

C12_EqualValue ==
    /\ HasKey(inflight.loaded, last.section)
    /\ HasKey(inflight.loaded.t[last.section], last.key)
    /\ inflight.loaded.t[last.section].t[last.key] = last.value

C12_LastWriterWins ==
    C12_Raced =>
        LET s == last.section
            k == last.key
            loaded == inflight.loaded.t
            now == from_str(content)
        IN  IF C12_EqualValue
            THEN World = inflight.mid
            ELSE /\ fileExists /\ now.ok
                 /\ DOMAIN now.doc.t = DOMAIN loaded
                 /\ \A s2 \in DOMAIN loaded \ {s} : now.doc.t[s2] = loaded[s2]
                 /\ DOMAIN now.doc.t[s].t = DOMAIN loaded[s].t \cup {k}
                 /\ now.doc.t[s].t[k] = last.value
                 /\ \A k2 \in DOMAIN loaded[s].t \ {k} :
                        now.doc.t[s].t[k2] = loaded[s].t[k2]

\* the save replaced a file another program had written after the load
C12_Witness ==
    /\ C12_Raced /\ ~C12_EqualValue
    /\ inflight.mid.exists
    /\ inflight.mid.text = <<Hdr(<<"extra">>), KV("model", String("gpt-4"))>>
    /\ HasKey(inflight.loaded, "update")
    /\ ~HasKey(from_str(content).doc, "extra")

(***************************************************************************)
(* C13 as stated (SpecRace): whatever other programs do between load's     *)
(* existence check and its create-and-write step, a file that exists when  *)
(* load goes on after the check keeps its content.                         *)
(***************************************************************************)
C13_LoadReturned == last.op = "get_config_into_toml" /\ inflight.stage = "idle"

C13_ExistingContentPreserved ==
    (C13_LoadReturned /\ inflight.mid.exists) =>
        (fileExists /\ content = inflight.mid.text)

(***************************************************************************)
(* C13 as amended (SpecRace): load writes the defaults only when the file  *)
(* was absent at its existence check; when no other program acts between   *)
(* the check and the rest of load, an existing file keeps its content; a   *)
(* file another program creates in between is truncated and, unless the    *)
(* write fails, holds the defaults afterwards.                             *)
(***************************************************************************)
C13_DefaultsOnlyIfAbsentAtCheck ==
    C13_LoadReturned =>
        /\ WroteFile(last) => (last.pre.home /\ ~last.pre.exists)
        /\ (inflight.mid.exists /\ ~inflight.raced) =>
               (fileExists /\ content = inflight.mid.text)
        /\ (inflight.mid.exists /\ content # inflight.mid.text) =>
               /\ inflight.raced /\ ~last.pre.exists /\ fileExists
               /\ \/ from_str(content) = [ok |-> TRUE, doc |-> ExpectedDefault]
                  \/ content = << >> /\ last.msg = "write_all failed"

\* the file was absent at the check, another program created it, and load
\* wrote the defaults over it
C13_Witness ==
    /\ C13_LoadReturned /\ inflight.raced /\ ~last.pre.exists
    /\ inflight.mid.exists
    /\ inflight.mid.text = <<Hdr(<<"extra">>), KV("model", String("gpt-4"))>>
    /\ last.status = "Ok" /\ last.val = ExpectedDefault
    /\ from_str(content).doc = ExpectedDefault

(***************************************************************************)
(* C14: after update_value(s, k, v) has returned success, the same call    *)
(* again returns success, writes nothing and leaves the file as the first  *)
(* call left it.                                                           *)
(***************************************************************************)
C14_SecondUpdateIsNoOp ==
    (last.op = "update_config_value" /\ last.status = "Ok") =>
        LET again == update_config_value(World, last.section, last.key, last.value, "none")
        IN  /\ again.res = Ok(Unit)
            /\ again.w = World
            /\ ~HasEvent(again.ev, "create") /\ ~HasEvent(again.ev, "write_all")

\* a first call that wrote: a table under a key the section did not hold
C14_Witness ==
    /\ last.op = "update_config_value" /\ last.status = "Ok"
    /\ last.pre.exists /\ HasEvent(last.ev, "write_all")
    /\ last.key = "extra" /\ IsTable(last.value)
    /\ ~HasKey(DocBefore.t[last.section], "extra")

(***************************************************************************)
(* C15: from one file and environment state, get_config_into_toml(true)    *)
(* and get_config_into_toml(false) return the same document or the same    *)
(* error and leave the file in the same state; the only difference is the  *)
(* line on standard output.                                                *)
(***************************************************************************)
Silent(ev) == SelectSeq(ev, LAMBDA e : e # "println")

C15_LogFlagOnlyPrints ==
    (last.op = "get_config_into_toml") =>
        \A fault \in Faults :
            LET loud  == get_config_into_toml(last.pre, TRUE, fault)
                quiet == get_config_into_toml(last.pre, FALSE, fault)
            IN  /\ loud.res = quiet.res
                /\ loud.w = quiet.w
                /\ Silent(loud.ev) = quiet.ev
                /\ ~HasEvent(quiet.ev, "println")
                /\ last.log = FALSE => ~HasEvent(last.ev, "println")

\* a logging load that created the defaults, printed and returned them
C15_Witness ==
    /\ last.op = "get_config_into_toml" /\ last.log
    /\ last.pre.home /\ ~last.pre.exists
    /\ last.status = "Ok" /\ last.val = ExpectedDefault
    /\ HasEvent(last.ev, "write_all") /\ HasEvent(last.ev, "println")

(***************************************************************************)
(* C16: each get_config or get_value call emits exactly one line 'Config   *)
(* file is <path>', after any bootstrap write and before the file is read, *)
(* also when the read or the parse then fails; each update_value or save   *)
(* call emits nothing.                                                     *)
(***************************************************************************)
InspectionOps == {"get_config", "get_config_value"}

Lines(ev) == Len(SelectSeq(ev, LAMBDA e : e = "println"))

\* the line comes after every bootstrap operation and before the read
LineInPlace(ev) ==
    \A i, j \in 1..Len(ev) :
        ev[i] = "println" =>
            /\ ev[j] \in {"create_dir_all", "create", "write_all"} => j < i
            /\ ev[j] = "read_to_string" => i < j

\* as stated, read over the calls that return: every one of them emits the line
C16_OneLinePerInspection ==
    /\ (last.op \in InspectionOps /\ last.status # "Panic") =>
           Lines(last.ev) = 1 /\ LineInPlace(last.ev)
    /\ last.op \in {"update_config_value", "save_config"} => Lines(last.ev) = 0

\* the call found the file or wrote the defaults in full
C16_PastBootstrap == last.pre.home /\ (last.pre.exists \/ HasEvent(last.ev, "write_all"))

\* the line is emitted once by a call that gets past the bootstrap, and not
\* at all by one that does not
C16_OneLineOncePastBootstrap ==
    /\ last.op \in InspectionOps =>
           /\ Lines(last.ev) = (IF C16_PastBootstrap THEN 1 ELSE 0)
           /\ LineInPlace(last.ev)
           /\ (ReadFailed(last) \/ ParseFailed(last)) => Lines(last.ev) = 1
           /\ ~C16_PastBootstrap => last.status \in {"Err", "Panic"}
    /\ last.op \in {"update_config_value", "save_config"} => Lines(last.ev) = 0

\* a get_value that wrote the defaults, printed the path, then read the file
C16_Witness ==
    /\ last.op = "get_config_value"
    /\ last.ev = <<"create_dir_all", "create", "write_all", "println", "read_to_string">>

(***************************************************************************)
(* C17: a failed update_value changes nothing that already exists: on an   *)
(* existing file, a failure with "Section not found", "Section is not a    *)
(* table" or a parse error leaves the content identical; update_value      *)
(* never creates a missing section; and the only write a failing           *)
(* update_value can perform is the default bootstrap of an absent file.    *)
(***************************************************************************)
C17_Failed == last.op = "update_config_value" /\ last.status = "Err"

\* the call reached save_config and save_config touched the file
C17_SaveWrote ==
    \E i, j \in 1..Len(last.ev) :
        i < j /\ last.ev[i] = "read_to_string" /\ last.ev[j] = "create"

C17_LookupFailureKeepsFile ==
    (/\ C17_Failed /\ last.pre.exists
     /\ \/ last.msg \in {"Section not found", "Section is not a table"}
        \/ ParseFailed(last)) =>
        FileAsBefore /\ ~WroteFile(last)

\* a section the file holds after the call was there before it (in the
\* defaults, when there was no file)
C17_NoSectionCreated ==
    (/\ last.op = "update_config_value" /\ last.status # "Panic"
     /\ fileExists /\ from_str(content).ok
     /\ HasKey(from_str(content).doc, last.section)) =>
        IF last.pre.exists
        THEN from_str(last.pre.text).ok /\ HasKey(from_str(last.pre.text).doc, last.section)
        ELSE HasKey(default_content, last.section)

\* as stated: a failing call writes nothing but the bootstrap
C17_OnlyBootstrapWrites ==
    /\ C17_LookupFailureKeepsFile
    /\ C17_NoSectionCreated
    /\ (C17_Failed /\ last.pre.exists) => content = last.pre.text
    /\ (C17_Failed /\ WroteFile(last)) => (~last.pre.exists /\ ~C17_SaveWrote)

\* a failing call writes the bootstrap, or a save that fails part-way and
\* leaves the file cut short
C17_BootstrapOrBrokenSave ==
    /\ C17_LookupFailureKeepsFile
    /\ C17_NoSectionCreated
    /\ (C17_Failed /\ last.pre.exists /\ content # last.pre.text) =>
           C17_SaveWrote /\ last.msg = "write failed"
    /\ (C17_Failed /\ WroteFile(last)) =>
           \/ /\ ~last.pre.exists /\ ~C17_SaveWrote /\ fileExists
              /\ \/ from_str(content) = [ok |-> TRUE, doc |-> default_content]
                 \/ content = << >> /\ last.msg = "write_all failed"
           \/ /\ C17_SaveWrote /\ last.msg = "write failed"
              /\ fileExists /\ content = << >>

\* a call on an absent file that wrote the defaults and then failed on a
\* section the defaults do not hold
C17_Witness ==
    /\ C17_Failed /\ last.msg = "Section not found"
    /\ last.pre.home /\ ~last.pre.exists
    /\ WroteFile(last) /\ ~C17_SaveWrote
    /\ fileExists /\ from_str(content) = [ok |-> TRUE, doc |-> default_content]
    /\ ~HasKey(default_content, last.section)
====
